---- MODULE Spec2Model ----
(***************************************************************************)
(* ConvertaTXT: the batch file-ingestion pipeline of the App component.    *)
(*                                                                         *)
(* The repository holds two versions of the component:                     *)
(*   "App"  src/src/App.tsx      cancellation checked at each group        *)
(*                               boundary, no per-file timeout;            *)
(*   "Alt"  src/unnamed/part_001 per-file timeout (processFileWithTimeout),*)
(*                               the abort signal is never read.           *)
(* The variable impl says which one is mounted; it never changes.          *)
(*                                                                         *)
(* Scheduling: JavaScript's event loop.  A macrotask (a user event, the    *)
(* completion of an extraction, a timer) runs to its first await; the      *)
(* continuation of `await Promise.all(...)` is a microtask, so it runs     *)
(* before any other macrotask once the promise is settled.                 *)
(***************************************************************************)
EXTENDS Integers, Sequences, FiniteSets, TLC

\* ------------------------------------------------------------------ bounds
\* files handed to the first invocation of handleFolderUpload
MaxFiles == 6
\* files handed to each later invocation
MaxLater == 1
\* invocations of handleFolderUpload
MaxRuns == 2
\* calls of processImageFile
MaxImages == 4
\* characters of a text given to the conversion
MaxLen == 3
\* characters of the relative path of a file, and of the path of a second
\* file processed with it
MaxPath == 5
MaxShort == 2
\* image files in an upload made while the OCR engine fails to initialize
MaxPng == 3
\* slide parts in the archive of a presentation
MaxSlides == 3
\* files that go wrong: unsupported files, extractions that throw,
\* extractions that take more than 30000 ms
MaxFaults == 2

\* --------------------------------------------------------------- constants
\* const batchSize = 5
batchSize == 5

Impls == {"App", "Alt"}

\* ------------------------------------------------------------- input files
\* A File as far as the pipeline reads it: declared media type (file.type)
\* and the extension of its name as it is written (file.name.split('.').pop()).
\* text is what the extraction of the file returns when it succeeds; path is
\* file.webkitRelativePath || file.name as characters, "a" and "b" being any
\* two characters other than "." and "/".
TxtFile == [type |-> "text/plain", ext |-> "txt", text |-> <<"a">>,
            path |-> <<"a", ".", "a">>]
XyzFile == [type |-> "", ext |-> "xyz", text |-> <<"a">>,
            path |-> <<"a", ".", "b">>]
SampleFiles == {TxtFile, XyzFile}
PngFile == [type |-> "image/png", ext |-> "png", text |-> <<"a">>,
            path |-> <<"b", ".", "a">>]

TextTypes == {"text/plain"}
ImageTypes == {"image/png"}
OfficeExtensions == {"doc", "docx", "xls", "xlsx", "ppt", "pptx"}
WordTypes ==
  {"application/vnd.openxmlformats-officedocument.wordprocessingml.document",
   "application/msword",
   "application/vnd.ms-word.document.macroEnabled.12"}
ExcelTypes ==
  {"application/vnd.openxmlformats-officedocument.spreadsheetml.sheet",
   "application/vnd.ms-excel",
   "application/vnd.ms-excel.sheet.macroEnabled.12"}
PowerPointTypes ==
  {"application/vnd.openxmlformats-officedocument.presentationml.presentation",
   "application/vnd.ms-powerpoint",
   "application/vnd.ms-powerpoint.presentation.macroEnabled.12"}
RtfTypes == {"application/vnd.lotus-freelance", "application/rtf"}

\* String.prototype.toLowerCase, on the extensions the model uses
toLowerCase(str) ==
  CASE str = "TXT" -> "txt"
    [] str = "PDF" -> "pdf"
    [] str = "Docx" -> "docx"
    [] str = "PNG" -> "png"
    [] OTHER -> str

\* const extension = file.name.split('.').pop()?.toLowerCase()
Extension(file) == toLowerCase(file.ext)

\* The if / else-if chain of processFile in src/src/App.tsx.
StrategyApp(file) ==
  IF file.type \in TextTypes THEN "text"
  ELSE IF file.type \in ImageTypes THEN "image"
  ELSE IF file.type = "application/pdf" \/ Extension(file) = "pdf" THEN "pdf"
  ELSE IF Extension(file) \in OfficeExtensions THEN "office"
  ELSE "unsupported"

\* The switch of processOfficeFile in src/src/App.tsx, on the extension.
processOfficeFile(extension) ==
  CASE extension \in {"doc", "docx"} -> "word"
    [] extension \in {"xls", "xlsx"} -> "excel"
    [] extension \in {"ppt", "pptx"} -> "powerpoint"
    [] OTHER -> "throws"

\* The if / else-if chain of processFile in part_001 (media type only).
StrategyAlt(file) ==
  IF file.type \in TextTypes THEN "text"
  ELSE IF file.type \in ImageTypes THEN "image"
  ELSE IF file.type = "application/pdf" THEN "pdf"
  ELSE IF file.type \in WordTypes THEN "word"
  ELSE IF file.type \in ExcelTypes THEN "excel"
  ELSE IF file.type \in PowerPointTypes THEN "powerpoint"
  ELSE IF file.type \in RtfTypes THEN "rtf"
  ELSE "unsupported"

Strategy(im, file) == IF im = "App" THEN StrategyApp(file) ELSE StrategyAlt(file)

\* The extraction that processFile runs for the file: the branch of its chain
\* and, for an office file in src/src/App.tsx, the case of processOfficeFile.
Extractor(im, file) ==
  IF Strategy(im, file) = "office" THEN processOfficeFile(Extension(file))
  ELSE Strategy(im, file)

\* ------------------------------------------------------------------- state
VARIABLES
  impl,               \* "App" or "Alt"
  isProcessing,       \* useState(false)
  processingStatus,   \* useState('')
  stats,              \* useState({ total: 0, processed: 0, failed: 0 })
  errorLogs,          \* useState<string[]>([])
  processedFiles,     \* useState<ProcessedFile[]>([])
  inputText,          \* useState('')
  abortControllerRef, \* useRef(null): 0 is null, r the controller of run r
  aborted,            \* signal.aborted of each AbortController
  nRuns,              \* invocations of handleFolderUpload so far
  files,              \* per invocation: fileArray
  loopI,              \* per invocation: the loop variable i
  processedResults,   \* per invocation: the local array processedResults
  pc,                 \* per invocation: "none" (not invoked), "await" (at
                      \* await Promise.all), and how it ended: "completed"
                      \* (the loop was left), "cancelled" and "error" (the
                      \* two branches of its catch)
  task,               \* per invocation, per file: the promises of that file
  faults,             \* bound counter: the failures so far (see MaxFaults)
  options,            \* useState<ConversionOptions>({...})
  outputText,         \* useState('')
  download,           \* the file the last click on Download handed to the browser
  workerRef,          \* useRef(null): 0 is null, n the n-th worker created
  createWorkerCalls,  \* history counter: the calls of createWorker()
  ocr                 \* per call of processImageFile: where it is, its worker

\* the state of the file pipeline, of the text editor and of the OCR engine
pipelineVars == <<impl, isProcessing, processingStatus, stats, errorLogs,
                  processedFiles, inputText, abortControllerRef, aborted, nRuns,
                  files, loopI, processedResults, pc, task, faults>>
editorVars == <<options, outputText, download>>
ocrVars == <<workerRef, createWorkerCalls, ocr>>

vars == <<impl, isProcessing, processingStatus, stats, errorLogs, processedFiles,
          inputText, abortControllerRef, aborted, nRuns, files, loopI,
          processedResults, pc, task, faults, editorVars, ocrVars>>

Runs == 1..MaxRuns

Min(a, b) == IF a < b THEN a ELSE b

\* file.name of the k-th file of invocation r
FileName(r, k) == <<r, k>>

\* ------------------------------------------------------- helpers of the App
\* updateStats(success), as the functional update it passes to setStats
updateStats(prev, success) ==
  [prev EXCEPT !.processed = @ + 1,
               !.failed = @ + (IF success THEN 0 ELSE 1)]

\* logError(fileName, error), for an error that has a message
logError(prevLogs, fileName, message) ==
  Append(prevLogs, [file |-> fileName, message |-> message])

\* fileArray.slice(i, i + batchSize), as the indices (1-based) it selects
BatchIdx(fs, i) == (i + 1)..Min(i + batchSize, Len(fs))


\* ------------------------------------------------------------------- texts
\* A string is the sequence of its characters: "a" is any character that is
\* not white space; a longer string stands for a run of characters that has
\* no white space at its ends and no line break (a word, a label).
Characters == {"a", " ", "\n", "\r"}
WhiteSpace == {" ", "\n", "\r"}

Texts == UNION {[1..n -> Characters] : n \in 0..MaxLen}

\* Longer texts: lines with white space at their ends, a white-space-only
\* line, an empty line, and the line breaks of Windows.
LongTexts ==
  {<<" ", "\n", " ", "a", "\n", "\n", "a", " ">>,
   <<"a", " ", "\r", "\n", "\r", "\n", "a">>}

\* str.split('\n')
RECURSIVE Split(_)
Split(str) ==
  IF \A n \in DOMAIN str : str[n] # "\n" THEN <<str>>
  ELSE LET n == CHOOSE n \in DOMAIN str :
                  str[n] = "\n" /\ \A m \in 1..(n - 1) : str[m] # "\n"
       IN <<SubSeq(str, 1, n - 1)>> \o Split(SubSeq(str, n + 1, Len(str)))

\* lines.join(separator)
RECURSIVE Join(_, _)
Join(lines, separator) ==
  IF lines = <<>> THEN <<>>
  ELSE IF Len(lines) = 1 THEN lines[1]
  ELSE lines[1] \o separator \o Join(Tail(lines), separator)

\* line.trim()
RECURSIVE Trim(_)
Trim(line) ==
  IF line = <<>> THEN <<>>
  ELSE IF line[1] \in WhiteSpace THEN Trim(Tail(line))
  ELSE IF line[Len(line)] \in WhiteSpace THEN Trim(SubSeq(line, 1, Len(line) - 1))
  ELSE line

\* lines.map(line => line.trim())
MapTrim(lines) == [n \in DOMAIN lines |-> Trim(lines[n])]

\* Mutant of FilterNonEmpty: the test is line.length > 0, without the trim.
FilterNonEmpty_Untrimmed(lines) == SelectSeq(lines, LAMBDA line : Len(line) > 0)

\* lines.filter(line => line.trim().length > 0)
FilterNonEmpty(lines) == SelectSeq(lines, LAMBDA line : Len(Trim(line)) > 0)

\* Mutant of ReplaceNewlines: the pattern /\n/ without the g flag, which
\* replaces the first line feed only.
ReplaceNewlines_First(str, replacement) ==
  IF \A n \in DOMAIN str : str[n] # "\n" THEN str
  ELSE LET n == CHOOSE n \in DOMAIN str :
                  str[n] = "\n" /\ \A m \in 1..(n - 1) : str[m] # "\n"
       IN SubSeq(str, 1, n - 1) \o replacement \o SubSeq(str, n + 1, Len(str))

\* str.replace(/\n/g, replacement)
RECURSIVE ReplaceNewlines(_, _)
ReplaceNewlines(str, replacement) ==
  IF str = <<>> THEN <<>>
  ELSE (IF str[1] = "\n" THEN replacement ELSE <<str[1]>>)
       \o ReplaceNewlines(Tail(str), replacement)

LineEndings == {"LF", "CRLF", "CR"}

\* The option values the panel can set (the encoding is never read).
AllOptions ==
  [encoding : {"UTF-8"}, lineEnding : LineEndings,
   removeEmptyLines : BOOLEAN, trimWhitespace : BOOLEAN]

\* The body of handleConvert, from `let converted = inputText` to the value
\* it passes to setOutputText.
ConvertText(text, opts) ==
  LET trimmed == IF opts.trimWhitespace
                 THEN Join(MapTrim(Split(text)), <<"\n">>) ELSE text
      filtered == IF opts.removeEmptyLines
                  THEN Join(FilterNonEmpty(Split(trimmed)), <<"\n">>) ELSE trimmed
  IN IF opts.lineEnding = "CRLF" THEN ReplaceNewlines(filtered, <<"\r", "\n">>)
     ELSE IF opts.lineEnding = "CR" THEN ReplaceNewlines(filtered, <<"\r">>)
     ELSE filtered

\* ------------------------------------------------------------------- paths
PathCharacters == {"a", "b", ".", "/"}

\* path.split('/')
RECURSIVE Segments(_)
Segments(path) ==
  IF \A n \in DOMAIN path : path[n] # "/" THEN <<path>>
  ELSE LET n == CHOOSE n \in DOMAIN path :
                  path[n] = "/" /\ \A m \in 1..(n - 1) : path[m] # "/"
       IN <<SubSeq(path, 1, n - 1)>> \o Segments(SubSeq(path, n + 1, Len(path)))

\* The relative paths of at most n characters a file can have: directory
\* names and a file name, none of them empty or made of dots alone.
Paths(n) ==
  {path \in UNION {[1..m -> PathCharacters] : m \in 1..n} :
     \A i \in DOMAIN Segments(path) :
       \E j \in DOMAIN Segments(path)[i] : Segments(path)[i][j] # "."}

\* Mutant of DownloadText: the archive is written without trimming.
DownloadText_NoTrim(content, opts) ==
  ConvertText(content, [opts EXCEPT !.trimWhitespace = FALSE])

\* The body of the forEach of handleDownload, from `let converted =
\* file.content` to the value it passes to zip.file.
DownloadText(content, opts) ==
  LET trimmed == IF opts.trimWhitespace
                 THEN Join(MapTrim(Split(content)), <<"\n">>) ELSE content
      filtered == IF opts.removeEmptyLines
                  THEN Join(FilterNonEmpty(Split(trimmed)), <<"\n">>) ELSE trimmed
  IN IF opts.lineEnding = "CRLF" THEN ReplaceNewlines(filtered, <<"\r", "\n">>)
     ELSE IF opts.lineEnding = "CR" THEN ReplaceNewlines(filtered, <<"\r">>)
     ELSE filtered

\* `${file.name}` as characters
NameText(name) == ToString(name)

\* The content of the ProcessedFile: the header of processFile and the
\* extracted text.
Content(im, path, name, text) ==
  IF im = "App"
  THEN <<"File Information:", "\n", "Path:", " ">> \o path \o <<"\n",
         "Name:", " ", NameText(name), "\n", "Date:", " ", "fileDate", "\n",
         "Size:", " ", "fileSize", " ", "bytes", "\n", "\n", "Content:", "\n">> \o text
  ELSE <<"Informacoes do Arquivo Original:", "\n", "Caminho:", " ">> \o path \o <<"\n",
         "Nome:", " ", NameText(name), "\n", "Data:", " ", "fileDate", "\n",
         "Tamanho:", " ", "fileSize", " ", "bytes", "\n", "\n">> \o text

\* The ProcessedFile that processFile returns for the k-th file of invocation r.
ProcessedFile(im, r, k, file) ==
  [name |-> FileName(r, k),
   content |-> Content(im, file.path, FileName(r, k), file.text),
   path |-> file.path,
   originalType |-> IF im = "App" THEN Extension(file) ELSE file.type]

\* The promises of one file.
\*   inner: the promise of processFile(file):
\*          "running", "ok" (a ProcessedFile), "null", "rej" (rejected);
\*   slot:  the promise handleFolderUpload hands to Promise.all for the file:
\*          "pending", "ok", "null", "rej";
\*   late:  30000 ms have passed since processFile was called and the
\*          extraction had not ended by then;
\*   upd, logs: history counters, the calls of updateStats and the entries
\*          appended to errorLogs on behalf of this file;
\*   strategy: the extraction processFile chose for the file ("" before the
\*          call, "unsupported" when it chose none).
NewTask ==
  [inner |-> "running", slot |-> "pending", late |-> FALSE, upd |-> 0, logs |-> 0,
   strategy |-> ""]

\* processFile(file) up to its first await: an unsupported file is settled
\* before processFile returns (updateStats(false); logError(...); return null).
ProcessFileSyncTask(im, file) ==
  IF Strategy(im, file) = "unsupported"
  THEN [inner |-> "null", slot |-> "null", late |-> FALSE, upd |-> 1, logs |-> 1,
        strategy |-> "unsupported"]
  ELSE [NewTask EXCEPT !.strategy = Extractor(im, file)]

\* Mutant of ProcessFileSync: an unsupported file is dropped silently.
ProcessFileSync_Silent(im, acc, r, k, file) == acc

\* The same synchronous part, as its effect on stats and errorLogs.
ProcessFileSync(im, acc, r, k, file) ==
  IF Strategy(im, file) = "unsupported"
  THEN [stats |-> updateStats(acc.stats, FALSE),
        logs |-> logError(acc.logs, FileName(r, k), "Unsupported file type")]
  ELSE acc

\* batch.map(file => processFile(file)): the files k..hi, in order.
RECURSIVE BatchMap(_, _, _, _, _, _)
BatchMap(im, acc, r, fs, k, hi) ==
  IF k > hi THEN acc
  ELSE BatchMap(im, ProcessFileSync(im, acc, r, k, fs[k]), r, fs, k + 1, hi)

\* The state of the batch at i once batch.map has returned.
StartBatch(im, acc, r, fs, i) ==
  BatchMap(im, acc, r, fs, i + 1, Min(i + batchSize, Len(fs)))

TasksStarted(im, ts, fs, i) ==
  [k \in DOMAIN ts |->
     IF k \in BatchIdx(fs, i) THEN ProcessFileSyncTask(im, fs[k]) ELSE ts[k]]

\* results.filter(result => result !== null), over the batch k..hi in order
RECURSIVE ValidResults(_, _, _, _, _, _)
ValidResults(im, r, fs, ts, k, hi) ==
  IF k > hi THEN <<>>
  ELSE (IF ts[k].slot = "ok" THEN <<ProcessedFile(im, r, k, fs[k])>> ELSE <<>>)
       \o ValidResults(im, r, fs, ts, k + 1, hi)

\* processedResults.map(file => `=== ${file.path} ===\n${file.content}\n`).join('\n')
CombinedText(results) ==
  Join([n \in DOMAIN results |->
          <<"===", " ">> \o results[n].path \o <<" ", "===", "\n">>
          \o results[n].content \o <<"\n">>],
       <<"\n">>)

\* -------------------------------------------------------------- Promise.all
Batch(r) == BatchIdx(files[r], loopI[r])

\* Promise.all rejects as soon as one of its promises rejects ...
AnyRejected(r) == \E k \in Batch(r) : task[r][k].slot = "rej"

\* Mutant of AllResolved: Promise.race in the place of Promise.all.
AllResolved_Race(r) == \E k \in Batch(r) : task[r][k].slot \in {"ok", "null"}

\* ... and resolves once all of them are resolved.
AllResolved(r) == \A k \in Batch(r) : task[r][k].slot \in {"ok", "null"}

PromiseAllSettled(r) == pc[r] = "await" /\ (AnyRejected(r) \/ AllResolved(r))

\* A settled await resumes in a microtask: before any other event is handled.
MicrotaskPending == \E r \in 1..nRuns : PromiseAllSettled(r)

Unsupported(fs) == {k \in DOMAIN fs : fs[k] = XyzFile}

\* The file lists of at most n files, at most f of them unsupported.
InputLists(n, f) ==
  {fs \in UNION {[1..m -> SampleFiles] : m \in 1..n} : Cardinality(Unsupported(fs)) <= f}

\* Nothing has been downloaded yet.
NoDownload == [name |-> "", body |-> <<>>]

\* A call of processImageFile that has not been made yet.
IdleCall == [pc |-> "idle", worker |-> 0]

\* Mutant of Abort: abort() flips the flag of the signal.
Abort_Toggle(flags, ref) ==
  [c \in DOMAIN flags |-> IF c = ref THEN ~flags[c] ELSE flags[c]]

\* if (abortControllerRef.current) abortControllerRef.current.abort(): the
\* aborted flags of the signals, after the call on the controller ref (0:
\* abortControllerRef.current is null).
Abort(flags, ref) ==
  [c \in DOMAIN flags |-> IF c = ref THEN TRUE ELSE flags[c]]

\* -------------------------------------------------------------------- Init
Init ==
  /\ impl \in Impls
  /\ isProcessing = FALSE
  /\ processingStatus = <<"">>
  /\ stats = [total |-> 0, processed |-> 0, failed |-> 0]
  /\ errorLogs = <<>>
  /\ processedFiles = <<>>
  /\ inputText = <<>>
  /\ abortControllerRef = 0
  /\ aborted = [r \in Runs |-> FALSE]
  /\ nRuns = 0
  /\ files = [r \in Runs |-> <<>>]
  /\ loopI = [r \in Runs |-> 0]
  /\ processedResults = [r \in Runs |-> <<>>]
  /\ pc = [r \in Runs |-> "none"]
  /\ task = [r \in Runs |-> <<>>]
  /\ faults = 0
  /\ options = [encoding |-> "UTF-8", lineEnding |-> "LF",
                removeEmptyLines |-> FALSE, trimWhitespace |-> FALSE]
  /\ outputText = <<>>
  /\ download = NoDownload
  /\ workerRef = 0
  /\ createWorkerCalls = 0
  /\ ocr = [n \in 1..MaxImages |-> IdleCall]

\* ----------------------------------------------------------------- actions
\* handleFolderUpload(event), from its first line to the first
\* `await Promise.all(...)`.
HandleFolderUpload(fs) ==
  /\ faults' = faults + Cardinality({k \in DOMAIN fs : Strategy(impl, fs[k]) = "unsupported"})
  /\ LET r == nRuns + 1
         acc == StartBatch(impl,
                           [stats |-> [total |-> Len(fs), processed |-> 0, failed |-> 0],
                            logs |-> IF impl = "App" THEN <<>> ELSE errorLogs],
                           r, fs, 0)
     IN /\ nRuns' = r
        /\ aborted' = [Abort(aborted, abortControllerRef) EXCEPT ![r] = FALSE]
        /\ abortControllerRef' = r
        /\ isProcessing' = TRUE
        /\ processingStatus' =
             IF impl = "App"
             THEN <<"Processing", FileName(r, Min(batchSize, Len(fs))), 1, Len(fs)>>
             ELSE <<"Scanning files...">>
        /\ stats' = acc.stats
        /\ errorLogs' = acc.logs
        /\ files' = [files EXCEPT ![r] = fs]
        /\ loopI' = [loopI EXCEPT ![r] = 0]
        /\ processedResults' = [processedResults EXCEPT ![r] = <<>>]
        /\ pc' = [pc EXCEPT ![r] = "await"]
        /\ task' = [task EXCEPT ![r] =
                      TasksStarted(impl, [k \in 1..Len(fs) |-> [NewTask EXCEPT !.inner = "idle"]], fs, 0)]
  /\ UNCHANGED <<impl, processedFiles, inputText>>
  /\ UNCHANGED <<editorVars, ocrVars>>

\* handleCancel(); the Cancel button is rendered while isProcessing.
HandleCancel ==
  /\ isProcessing
  /\ ~MicrotaskPending
  /\ aborted' = Abort(aborted, abortControllerRef)
  /\ UNCHANGED <<impl, isProcessing, processingStatus, stats, errorLogs,
                 processedFiles, inputText, abortControllerRef, nRuns, files,
                 loopI, processedResults, pc, task, faults>>
  /\ UNCHANGED <<editorVars, ocrVars>>


\* What an extraction strategy does once it ends: it returns the text, throws
\* an Error, or throws a value without a message property (undefined, null).
Outcomes == {"text", "error", "nullish"}

\* Mutant of ProcessFileEnd: processFile without its try / catch, so that
\* what the extraction throws rejects the promise of processFile.
ProcessFileEnd_NoCatch(c, r, k, outcome) ==
  IF outcome = "text"
  THEN [stats |-> updateStats(c.stats, TRUE),
        logs |-> c.logs,
        task |-> [c.task EXCEPT !.inner = "ok", !.upd = @ + 1]]
  ELSE [c EXCEPT !.task.inner = "rej"]

\* processFile(file) from the end of the extraction to its return: the state
\* c = [stats, logs, task] with task the promises of the file.
\*   "text":    updateStats(true); return {...}
\*   "error":   catch: updateStats(false); logError(file.name, error); return null
\*   "nullish": catch: updateStats(false); logError reads error.message of a
\*              value that has none and throws: the promise is rejected.
ProcessFileEnd(c, r, k, outcome) ==
  IF outcome = "text"
  THEN [stats |-> updateStats(c.stats, TRUE),
        logs |-> c.logs,
        task |-> [c.task EXCEPT !.inner = "ok", !.upd = @ + 1]]
  ELSE IF outcome = "error"
  THEN [stats |-> updateStats(c.stats, FALSE),
        logs |-> logError(c.logs, FileName(r, k), "extraction error"),
        task |-> [c.task EXCEPT !.inner = "null", !.upd = @ + 1, !.logs = @ + 1]]
  ELSE [stats |-> updateStats(c.stats, FALSE),
        logs |-> c.logs,
        task |-> [c.task EXCEPT !.inner = "rej", !.upd = @ + 1]]

\* src/src/App.tsx: Promise.all is given processFile(file) itself.
SettleApp(c, r, k) == [c EXCEPT !.task.slot = c.task.inner]

\* part_001: processFileWithTimeout(file, 30000).catch(error => {...}).
\* A promise that the timer has already rejected ignores resolve and reject;
\* otherwise the result is passed on, and a rejection runs the catch handler:
\* updateStats(false); logError(file.name, error); return null.
SettleAlt(c, r, k) ==
  IF c.task.slot # "pending" THEN c
  ELSE IF c.task.inner = "rej"
  THEN [stats |-> updateStats(c.stats, FALSE),
        logs |-> logError(c.logs, FileName(r, k), "TypeError"),
        task |-> [c.task EXCEPT !.slot = "null", !.upd = @ + 1, !.logs = @ + 1]]
  ELSE [c EXCEPT !.task.slot = c.task.inner]

\* The timer of processFileWithTimeout fires: reject(new Error('File
\* processing timed out')), then the catch handler of handleFolderUpload.
TimerFires(c, r, k) ==
  [stats |-> updateStats(c.stats, FALSE),
   logs |-> logError(c.logs, FileName(r, k), "File processing timed out"),
   task |-> [c.task EXCEPT !.slot = "null", !.late = TRUE, !.upd = @ + 1, !.logs = @ + 1]]

\* The extraction of the k-th file of invocation r ends.
Complete(r, k, outcome) ==
  /\ r \in 1..nRuns
  /\ k \in DOMAIN task[r]
  /\ task[r][k].inner = "running"
  /\ ~MicrotaskPending
  /\ outcome # "text" => faults < MaxFaults
  /\ faults' = faults + (IF outcome = "text" THEN 0 ELSE 1)
  /\ LET c0 == [stats |-> stats, logs |-> errorLogs, task |-> task[r][k]]
         c1 == ProcessFileEnd(c0, r, k, outcome)
         c2 == IF impl = "App" THEN SettleApp(c1, r, k) ELSE SettleAlt(c1, r, k)
     IN /\ stats' = c2.stats
        /\ errorLogs' = c2.logs
        /\ task' = [task EXCEPT ![r][k] = c2.task]
  /\ UNCHANGED <<impl, isProcessing, processingStatus, processedFiles, inputText,
                 abortControllerRef, aborted, nRuns, files, loopI,
                 processedResults, pc>>
  /\ UNCHANGED <<editorVars, ocrVars>>

\* part_001: 30000 ms have passed and the extraction of the file has not
\* ended: the timer of processFileWithTimeout fires.
Timeout(r, k) ==
  /\ impl = "Alt"
  /\ r \in 1..nRuns
  /\ k \in DOMAIN task[r]
  /\ task[r][k].inner = "running"
  /\ task[r][k].slot = "pending"
  /\ ~MicrotaskPending
  /\ faults < MaxFaults
  /\ faults' = faults + 1
  /\ LET c == TimerFires([stats |-> stats, logs |-> errorLogs, task |-> task[r][k]], r, k)
     IN /\ stats' = c.stats
        /\ errorLogs' = c.logs
        /\ task' = [task EXCEPT ![r][k] = c.task]
  /\ UNCHANGED <<impl, isProcessing, processingStatus, processedFiles, inputText,
                 abortControllerRef, aborted, nRuns, files, loopI,
                 processedResults, pc>>
  /\ UNCHANGED <<editorVars, ocrVars>>

\* src/src/App.tsx: 30000 ms have passed and the extraction of the file has
\* not ended.  processFile(file) is handed to Promise.all as it is: no timer
\* was set, nothing runs.
Overdue(r, k) ==
  /\ impl = "App"
  /\ r \in 1..nRuns
  /\ k \in DOMAIN task[r]
  /\ task[r][k].inner = "running"
  /\ ~task[r][k].late
  /\ ~MicrotaskPending
  /\ faults < MaxFaults
  /\ faults' = faults + 1
  /\ task' = [task EXCEPT ![r][k].late = TRUE]
  /\ UNCHANGED <<impl, isProcessing, processingStatus, stats, errorLogs,
                 processedFiles, inputText, abortControllerRef, aborted, nRuns,
                 files, loopI, processedResults, pc>>
  /\ UNCHANGED <<editorVars, ocrVars>>

\* abortControllerRef.current?.signal.aborted
SignalAborted == abortControllerRef # 0 /\ aborted[abortControllerRef]

\* Mutant of LoopStep: the signal is tested before the loop condition.
LoopStep_AbortFirst(im, n, i) ==
  IF im = "App" /\ SignalAborted THEN "cancelled"
  ELSE IF i >= n THEN "end"
  ELSE "next"

\* The loop test of handleFolderUpload at i, after a group has resolved:
\*   "next"      another group is started,
\*   "cancelled" throw new Error('Processing cancelled')   (App.tsx only),
\*   "end"       the loop is left normally.
LoopStep(im, n, i) ==
  IF i >= n THEN "end"
  ELSE IF im = "App" /\ SignalAborted THEN "cancelled"
  ELSE "next"

\* handleFolderUpload resumes after `await Promise.all(...)`.
AwaitPromiseAll(r) ==
  /\ r \in 1..nRuns
  /\ PromiseAllSettled(r)
  /\ LET fs == files[r]
         i == loopI[r]
         hi == Min(i + batchSize, Len(fs))
         results == processedResults[r] \o ValidResults(impl, r, fs, task[r], i + 1, hi)
         i2 == i + batchSize
         step == LoopStep(impl, Len(fs), i2)
         acc == StartBatch(impl, [stats |-> stats, logs |-> errorLogs], r, fs, i2)
     IN IF AnyRejected(r)
        THEN \* catch (error) {...} finally {...}
          /\ pc' = [pc EXCEPT ![r] = "error"]
          /\ isProcessing' = FALSE
          /\ processingStatus' =
               IF impl = "App" THEN <<"Error processing files">> ELSE <<"">>
          /\ abortControllerRef' = IF impl = "App" THEN 0 ELSE abortControllerRef
          /\ UNCHANGED <<stats, errorLogs, processedFiles, inputText, loopI,
                         processedResults, task>>
        ELSE
          /\ processedResults' = [processedResults EXCEPT ![r] = results]
          /\ processedFiles' = results
          /\ loopI' = [loopI EXCEPT ![r] = i2]
          /\ IF step = "next"
             THEN /\ stats' = acc.stats
                  /\ errorLogs' = acc.logs
                  /\ task' = [task EXCEPT ![r] = TasksStarted(impl, task[r], fs, i2)]
                  /\ processingStatus' =
                       IF impl = "App"
                       THEN <<"Processing", FileName(r, Min(i2 + batchSize, Len(fs))),
                              i2 + 1, Len(fs)>>
                       ELSE processingStatus
                  /\ UNCHANGED <<pc, isProcessing, abortControllerRef, inputText>>
             ELSE /\ pc' = [pc EXCEPT ![r] = IF step = "cancelled" THEN "cancelled" ELSE "completed"]
                  /\ isProcessing' = FALSE
                  /\ processingStatus' =
                       IF impl # "App" THEN <<"">>
                       ELSE IF step = "cancelled" THEN <<"Processing cancelled">>
                       ELSE <<"Processed", hi, Len(fs)>>
                  /\ abortControllerRef' = IF impl = "App" THEN 0 ELSE abortControllerRef
                  /\ inputText' =
                       IF impl = "App" /\ step = "end" THEN CombinedText(results)
                       ELSE inputText
                  /\ UNCHANGED <<stats, errorLogs, task>>
  /\ UNCHANGED <<impl, aborted, nRuns, files, faults>>
  /\ UNCHANGED <<editorVars, ocrVars>>

\* The user picks files: both upload inputs stay enabled during a run.
Upload ==
  /\ nRuns < MaxRuns
  /\ ~MicrotaskPending
  /\ \E fs \in InputLists(IF nRuns = 0 THEN MaxFiles ELSE MaxLater, MaxFaults - faults) : HandleFolderUpload(fs)

Next ==
  \/ Upload
  \/ HandleCancel
  \/ \E r \in Runs, k \in 1..MaxFiles, o \in Outcomes : Complete(r, k, o)
  \/ \E r \in Runs, k \in 1..MaxFiles : Timeout(r, k)
  \/ \E r \in Runs, k \in 1..MaxFiles : Overdue(r, k)
  \/ \E r \in Runs : AwaitPromiseAll(r)

Spec == Init /\ [][Next]_vars


\* ----------------------------------------- a run of two full groups (Alt)
\* part_001 given 2 * batchSize supported files in one upload.
TwoGroups == [k \in 1..(2 * batchSize) |-> TxtFile]

InitAlt == Init /\ impl = "Alt"

UploadTwoGroups == nRuns = 0 /\ HandleFolderUpload(TwoGroups)

NextTwoGroups ==
  \/ UploadTwoGroups
  \/ \E k \in DOMAIN TwoGroups, o \in Outcomes : Complete(1, k, o)
  \/ \E k \in DOMAIN TwoGroups : Timeout(1, k)
  \/ AwaitPromiseAll(1)

SpecTwoGroups == InitAlt /\ [][NextTwoGroups]_vars


\* ------------------------------------------------- one run, with scheduling
\* One invocation of handleFolderUpload, with what the event loop guarantees:
\* a settled await is resumed, and in part_001 a file handed to
\* processFileWithTimeout either ends or has its timer fire.  Nothing makes an
\* extraction end: in src/src/App.tsx no step of a file is guaranteed.
UploadOnce ==
  /\ nRuns = 0
  /\ \E fs \in InputLists(MaxFiles, MaxFaults) : HandleFolderUpload(fs)

NextLive ==
  \/ UploadOnce
  \/ HandleCancel
  \/ \E k \in 1..MaxFiles, o \in Outcomes : Complete(1, k, o)
  \/ \E k \in 1..MaxFiles : Timeout(1, k)
  \/ \E k \in 1..MaxFiles : Overdue(1, k)
  \/ AwaitPromiseAll(1)

\* setTimeout(() => reject(...), timeoutMs) of part_001: while the promise
\* handed to Promise.all is pending, the extraction ends or the timer fires.
TimerOrEnd(k) ==
  /\ impl = "Alt"
  /\ k \in DOMAIN task[1]
  /\ task[1][k].slot = "pending"
  /\ (Timeout(1, k) \/ \E o \in Outcomes : Complete(1, k, o))

FairLive ==
  /\ WF_vars(AwaitPromiseAll(1))
  /\ \A k \in 1..MaxFiles : WF_vars(TimerOrEnd(k))

SpecLive == Init /\ [][NextLive]_vars /\ FairLive


\* ------------------------------------------------------------ the OCR engine
\* processImageFile(file) up to the first await that yields: it calls
\* initializeWorker(), which tests workerRef.current and, finding it null,
\* calls createWorker() and awaits it; otherwise it returns workerRef.current.
\* processFile calls it for every image file of a group, all within batch.map.
ProcessImageFile(n) ==
  /\ ocr[n].pc = "idle"
  /\ IF workerRef = 0
     THEN /\ createWorkerCalls' = createWorkerCalls + 1
          /\ ocr' = [ocr EXCEPT ![n] = [pc |-> "creating", worker |-> createWorkerCalls + 1]]
     ELSE /\ createWorkerCalls' = createWorkerCalls
          /\ ocr' = [ocr EXCEPT ![n] = [pc |-> "recognize", worker |-> workerRef]]
  /\ UNCHANGED <<workerRef, pipelineVars, editorVars>>

\* initializeWorker() after its awaits (createWorker, load, reinitialize):
\* workerRef.current = worker; return workerRef.current.
InitializeWorkerEnd(n) ==
  /\ ocr[n].pc = "creating"
  /\ workerRef' = ocr[n].worker
  /\ ocr' = [ocr EXCEPT ![n].pc = "recognize"]
  /\ UNCHANGED <<createWorkerCalls, pipelineVars, editorVars>>

\* await worker.recognize(file) ends.
Recognize(n) ==
  /\ ocr[n].pc = "recognize"
  /\ ocr' = [ocr EXCEPT ![n].pc = "done"]
  /\ UNCHANGED <<workerRef, createWorkerCalls, pipelineVars, editorVars>>

NextOcr ==
  \/ \E n \in 1..MaxImages : ProcessImageFile(n)
  \/ \E n \in 1..MaxImages : InitializeWorkerEnd(n)
  \/ \E n \in 1..MaxImages : Recognize(n)

SpecOcr == Init /\ [][NextOcr]_vars

\* ------------------------------------- a run while the OCR engine is down
\* One upload of text files and images, before any image was processed
\* (workerRef.current is null).  For every image initializeWorker calls
\* createWorker(), and its awaits (createWorker, load, reinitialize) end with
\* an error: processImageFile throws it into the catch block of processFile.
ImageLists ==
  {fs \in UNION {[1..m -> {TxtFile, PngFile}] : m \in 1..MaxFiles} :
     Cardinality({k \in DOMAIN fs : fs[k] = PngFile}) <= MaxPng}

UploadImages ==
  /\ nRuns = 0
  /\ \E fs \in ImageLists : HandleFolderUpload(fs)

InitializeWorkerFails(r, k) ==
  /\ r \in 1..nRuns
  /\ k \in DOMAIN task[r]
  /\ task[r][k].inner = "running"
  /\ task[r][k].strategy = "image"
  /\ workerRef = 0
  /\ ~MicrotaskPending
  /\ LET c0 == [stats |-> stats, logs |-> errorLogs, task |-> task[r][k]]
         c1 == ProcessFileEnd(c0, r, k, "error")
         c2 == IF impl = "App" THEN SettleApp(c1, r, k) ELSE SettleAlt(c1, r, k)
     IN /\ stats' = c2.stats
        /\ errorLogs' = c2.logs
        /\ task' = [task EXCEPT ![r][k] = c2.task]
  /\ UNCHANGED <<impl, isProcessing, processingStatus, processedFiles, inputText,
                 abortControllerRef, aborted, nRuns, files, loopI,
                 processedResults, pc, faults>>
  /\ UNCHANGED <<editorVars, ocrVars>>

\* The extraction of a file that is not an image returns or throws an Error.
CompleteOther(k, outcome) ==
  /\ k \in DOMAIN task[1]
  /\ task[1][k].strategy # "image"
  /\ Complete(1, k, outcome)

NextOcrDown ==
  \/ UploadImages
  \/ \E k \in 1..MaxFiles : InitializeWorkerFails(1, k)
  \/ \E k \in 1..MaxFiles, o \in {"text", "error"} : CompleteOther(k, o)
  \/ \E k \in 1..MaxFiles : Timeout(1, k)
  \/ AwaitPromiseAll(1)

SpecOcrDown == Init /\ [][NextOcrDown]_vars


\* ------------------------------------------------------- a presentation
\* The archive of a .pptx file as far as the extraction reads it: its parts
\* 'ppt/slides/slide<number>.xml' in the order of Object.keys(zip.files)
\* (the order in which the archive lists them), each with the texts that
\* stand between the tags of its XML, as slideContent.match(/>([^<]+)</g)
\* finds them (none: match returns null).
SlideNumbers == {1, 2, 10}

SlideMatches == {<<>>, << <<"a">> >>, << <<" ">>, <<" ", "a">> >>}

Archives ==
  {parts \in UNION {[1..n -> [number : SlideNumbers, matches : SlideMatches]] :
                      n \in 1..MaxSlides} :
     \A i, j \in DOMAIN parts : i # j => parts[i].number # parts[j].number}

\* The XML of a slide, its tags as single characters.
SlideXml(matches) ==
  <<"<p:sld>">>
  \o Join([n \in DOMAIN matches |-> <<"<a:t>">> \o matches[n] \o <<"</a:t>">>], <<>>)
  \o <<"</p:sld>">>

\* case 'ppt' / 'pptx' of processOfficeFile: the loop over slideFiles.
RECURSIVE SlidesText(_)
SlidesText(parts) ==
  IF parts = <<>> THEN <<>>
  ELSE (IF Head(parts).matches = <<>> THEN <<>>
        ELSE <<"Slide", " ", ToString(Head(parts).number), "\n">>
             \o Join(FilterNonEmpty(MapTrim(Head(parts).matches)), <<"\n">>)
             \o <<"\n", "\n">>)
       \o SlidesText(Tail(parts))

\* part_001: the content of zip.file("ppt/slides/slide1.xml"), if there is one.
SlideOneXml(parts) ==
  IF \E n \in DOMAIN parts : parts[n].number = 1
  THEN SlideXml(parts[CHOOSE n \in DOMAIN parts : parts[n].number = 1].matches)
  ELSE <<>>

\* What the extraction of a presentation returns.
PresentationText(im, parts) ==
  IF im = "App" THEN SlidesText(parts) ELSE SlideOneXml(parts)

\* A .pptx file with the archive parts, as each version reads it.
PptxFile(im, parts) ==
  [type |-> "application/vnd.openxmlformats-officedocument.presentationml.presentation",
   ext |-> "pptx", text |-> PresentationText(im, parts), path |-> <<"a", ".", "b">>,
   slides |-> parts]

UploadPresentation ==
  /\ nRuns = 0
  /\ \E parts \in Archives : HandleFolderUpload(<<PptxFile(impl, parts)>>)

NextSlides ==
  \/ UploadPresentation
  \/ \E o \in Outcomes : Complete(1, 1, o)
  \/ AwaitPromiseAll(1)
  \/ HandleCancel

SpecSlides == Init /\ [][NextSlides]_vars


\* ------------------------------------------------- one file of any kind
\* One upload of one file, its media type and extension drawn from the kinds
\* processFile tells apart (and two it does not know).
ProbeTypes ==
  {"", "text/plain", "image/png", "application/pdf", "application/msword",
   "application/vnd.ms-excel", "application/vnd.ms-powerpoint",
   "application/rtf", "application/octet-stream"}

ProbeExtensions ==
  {"txt", "TXT", "doc", "docx", "Docx", "xls", "xlsx", "ppt", "pptx", "pdf", "PDF",
   "png", "PNG", "jpg", "rtf", "xyz"}

ProbeFiles ==
  [type : ProbeTypes, ext : ProbeExtensions, text : {<<"a">>}, path : {<<"a", ".", "a">>}]

UploadProbe ==
  /\ nRuns = 0
  /\ \E file \in ProbeFiles : HandleFolderUpload(<<file>>)

NextClassify ==
  \/ UploadProbe
  \/ HandleCancel
  \/ \E o \in Outcomes : Complete(1, 1, o)
  \/ Timeout(1, 1)
  \/ Overdue(1, 1)
  \/ AwaitPromiseAll(1)

SpecClassify == Init /\ [][NextClassify]_vars


\* ----------------------------------------------------------- the text editor
\* handleConvert(); the button is disabled while inputText is empty.
HandleConvert ==
  /\ inputText # <<>>
  /\ ~MicrotaskPending
  /\ outputText' = ConvertText(inputText, options)
  /\ UNCHANGED <<pipelineVars, options, download, ocrVars>>

\* Mutant of ReplaceExtension: the pattern /\.[^.]+$/, which lets the match
\* run across a "/".
ReplaceExtension_AcrossSlash(path) ==
  LET matches == {n \in DOMAIN path :
                    /\ path[n] = "."
                    /\ n < Len(path)
                    /\ \A m \in (n + 1)..Len(path) : path[m] # "."}
  IN IF matches = {} THEN path
     ELSE SubSeq(path, 1, (CHOOSE n \in matches : TRUE) - 1)

\* path.replace(/\.[^/.]+$/, ''): the match is a "." followed, up to the end
\* of the path, by one or more characters that are neither "/" nor ".".
ReplaceExtension(path) ==
  LET matches == {n \in DOMAIN path :
                    /\ path[n] = "."
                    /\ n < Len(path)
                    /\ \A m \in (n + 1)..Len(path) : path[m] \notin {"/", "."}}
  IN IF matches = {} THEN path
     ELSE SubSeq(path, 1, (CHOOSE n \in matches : TRUE) - 1)

\* const fileName = file.path.replace(/\.[^/.]+$/, '') + '.txt'
ZipName(path) == ReplaceExtension(path) \o <<".", "t", "x", "t">>

\* zip.file(fileName, converted): JSZip keeps one entry per name, a second
\* call with the same name replaces the data of the entry.
ZipFile(zip, fileName, data) ==
  IF \E n \in DOMAIN zip : zip[n].fileName = fileName
  THEN [n \in DOMAIN zip |->
          IF zip[n].fileName = fileName THEN [zip[n] EXCEPT !.data = data] ELSE zip[n]]
  ELSE Append(zip, [fileName |-> fileName, data |-> data])

\* processedFiles.forEach(file => {...}) on the files n.. of the list
RECURSIVE ZipAll(_, _, _, _)
ZipAll(zip, pfs, opts, n) ==
  IF n > Len(pfs) THEN zip
  ELSE ZipAll(ZipFile(zip, ZipName(pfs[n].path), DownloadText(pfs[n].content, opts)),
              pfs, opts, n + 1)

\* handleDownload(); the button is disabled while there is neither an output
\* text nor a processed file.
HandleDownload ==
  /\ outputText # <<>> \/ Len(processedFiles) > 0
  /\ ~MicrotaskPending
  /\ download' =
       IF Len(processedFiles) > 1
       THEN [name |-> "converted_files.zip",
             body |-> ZipAll(<<>>, processedFiles, options, 1)]
       ELSE [name |-> "converted.txt", body |-> outputText]
  /\ UNCHANGED <<pipelineVars, options, outputText, ocrVars>>

\* ------------------------------------------------- after a run of two files
\* The state of the pipeline after the run of the two text files fs, both
\* read with success.
AfterRunOfTwo(fs) ==
  /\ LET results == [k \in 1..2 |-> ProcessedFile(impl, 1, k, fs[k])]
     IN /\ files = [r \in Runs |-> IF r = 1 THEN fs ELSE <<>>]
        /\ processedResults = [r \in Runs |-> IF r = 1 THEN results ELSE <<>>]
        /\ processedFiles = results
  /\ nRuns = 1
  /\ pc = [r \in Runs |-> IF r = 1 THEN "completed" ELSE "none"]
  /\ loopI = [r \in Runs |-> IF r = 1 THEN batchSize ELSE 0]
  /\ task = [r \in Runs |->
               IF r = 1
               THEN [k \in 1..2 |-> [inner |-> "ok", slot |-> "ok", late |-> FALSE,
                                     upd |-> 1, logs |-> 0, strategy |-> "text"]]
               ELSE <<>>]
  /\ stats = [total |-> 2, processed |-> 2, failed |-> 0]
  /\ errorLogs = <<>>
  /\ isProcessing = FALSE
  /\ processingStatus = IF impl = "App" THEN <<"Processed", 2, 2>> ELSE <<"">>
  /\ abortControllerRef = IF impl = "App" THEN 0 ELSE 1
  /\ aborted = [r \in Runs |-> FALSE]
  /\ faults = 0
  /\ workerRef = 0
  /\ createWorkerCalls = 0
  /\ ocr = [n \in 1..MaxImages |-> IdleCall]

\* --------------------------------- the conversions, on texts of every kind
\* After a run of two text files, the first of any text, with any option
\* values set in the panel and with the text or the content of the first
\* file typed into the input area.
InitText ==
  /\ impl \in Impls
  /\ options \in AllOptions
  /\ \E text \in Texts \cup LongTexts :
       LET fs == <<[TxtFile EXCEPT !.text = text],
                   [TxtFile EXCEPT !.path = <<"b", ".", "a">>]>>
       IN /\ AfterRunOfTwo(fs)
          /\ inputText \in {text, ProcessedFile(impl, 1, 1, fs[1]).content}
  /\ outputText = <<>>
  /\ download = NoDownload

NextText == HandleConvert \/ HandleDownload

SpecText == InitText /\ [][NextText]_vars

\* ------------------------------------ the archive, on paths of every kind
\* After a run of two text files of any two paths, with the options as they
\* are at the start; src/src/App.tsx has put the combined text into
\* inputText at the end of the run.
InitZip ==
  /\ impl \in Impls
  /\ options = [encoding |-> "UTF-8", lineEnding |-> "LF",
                removeEmptyLines |-> FALSE, trimWhitespace |-> FALSE]
  /\ \E path \in Paths(MaxPath), other \in Paths(MaxShort) :
       LET fs == <<[TxtFile EXCEPT !.path = path], [TxtFile EXCEPT !.path = other]>>
       IN /\ AfterRunOfTwo(fs)
          /\ inputText =
               IF impl = "App"
               THEN CombinedText([k \in 1..2 |-> ProcessedFile(impl, 1, k, fs[k])])
               ELSE <<>>
  /\ outputText = <<>>
  /\ download = NoDownload

NextZip == HandleConvert \/ HandleDownload

SpecZip == InitZip /\ [][NextZip]_vars


\* ------------------------------------- the editor around a single upload
\* onChange of the input area, which is rendered while no run is in progress.
SetInputText(text) ==
  /\ ~isProcessing
  /\ ~MicrotaskPending
  /\ inputText' = text
  /\ UNCHANGED <<impl, isProcessing, processingStatus, stats, errorLogs,
                 processedFiles, abortControllerRef, aborted, nRuns, files, loopI,
                 processedResults, pc, task, faults, editorVars, ocrVars>>

\* onChange of the controls of the options panel.
SetLineEnding(value) ==
  /\ ~MicrotaskPending
  /\ options' = [options EXCEPT !.lineEnding = value]
  /\ UNCHANGED <<pipelineVars, outputText, download, ocrVars>>

SetRemoveEmptyLines(checked) ==
  /\ ~MicrotaskPending
  /\ options' = [options EXCEPT !.removeEmptyLines = checked]
  /\ UNCHANGED <<pipelineVars, outputText, download, ocrVars>>

SetTrimWhitespace(checked) ==
  /\ ~MicrotaskPending
  /\ options' = [options EXCEPT !.trimWhitespace = checked]
  /\ UNCHANGED <<pipelineVars, outputText, download, ocrVars>>

\* The texts typed into the input area, and the files uploaded.
TypedTexts == {<<>>, <<"a">>, <<" ", "a", "\n", "\n", "a">>}
EditorFiles == {TxtFile, [TxtFile EXCEPT !.text = <<" ", "a", "\n">>]}

UploadOne ==
  /\ nRuns = 0
  /\ \E file \in EditorFiles : HandleFolderUpload(<<file>>)

NextEditor ==
  \/ UploadOne
  \/ \E o \in Outcomes : Complete(1, 1, o)
  \/ AwaitPromiseAll(1)
  \/ \E text \in TypedTexts : SetInputText(text)
  \/ \E value \in LineEndings : SetLineEnding(value)
  \/ \E checked \in BOOLEAN : SetRemoveEmptyLines(checked)
  \/ \E checked \in BOOLEAN : SetTrimWhitespace(checked)
  \/ HandleConvert
  \/ HandleDownload

SpecEditor == Init /\ [][NextEditor]_vars


\* ================================================================== claims
\* The ProcessedFiles of the files 1..hi of invocation r that resolved as a
\* success, in input order.
RECURSIVE SuccessesInOrder(_, _)
SuccessesInOrder(r, hi) ==
  IF hi = 0 THEN <<>>
  ELSE SuccessesInOrder(r, hi - 1)
       \o (IF task[r][hi].slot = "ok"
           THEN <<ProcessedFile(impl, r, hi, files[r][hi])>> ELSE <<>>)

Ended(r) == pc[r] \in {"completed", "cancelled", "error"}

Occurrences(seq, name) == Cardinality({n \in DOMAIN seq : seq[n].name = name})

\* C1: during a run (here the first one, before any other upload) the
\* counters satisfy processed = (files resolved as a success) + failed, and
\* processed <= total, in every reachable state.
C1_CountersConsistent ==
  nRuns = 1 =>
    /\ stats.processed
         = Cardinality({k \in DOMAIN task[1] : task[1][k].slot = "ok"}) + stats.failed
    /\ stats.processed <= stats.total

\* C2: each file of a run yields exactly one outcome: the counters are
\* incremented exactly once for it, and it contributes either exactly one
\* ProcessedFile or exactly one entry of the error log, never both and never
\* two of either.
C2_OneOutcomePerFile ==
  nRuns = 1 =>
    \A k \in DOMAIN task[1] :
      LET t == task[1][k]
          n == Occurrences(processedResults[1], FileName(1, k))
      IN /\ t.upd <= 1
         /\ t.logs <= 1
         /\ n <= 1
         /\ n = 1 => t.logs = 0
         /\ t.slot # "pending" =>
              /\ t.upd = 1
              /\ (t.slot = "ok" /\ t.logs = 0) \/ (t.slot # "ok" /\ t.logs = 1)

\* C3: once a run has ended, processedFiles is the input file sequence
\* restricted to the files that succeeded, in input order.
C3_ResultIsInputRestrictedToSuccesses ==
  (nRuns = 1 /\ Ended(1)) => processedFiles = SuccessesInOrder(1, Len(files[1]))

\* C4: the failure of one file never aborts the run: no run ends through the
\* generic branch of the catch, in the state 'Error processing files'.
C4_FailureNeverAbortsRun ==
  /\ \A r \in 1..nRuns : pc[r] # "error"
  /\ processingStatus # <<"Error processing files">>

\* C5: once handleCancel has signalled cancellation for a run, no processFile
\* call for a file of that run is started at any later step.
C5_NoStartAfterCancel ==
  [][(nRuns = 1 /\ aborted[1]) =>
       \A k \in DOMAIN task[1] :
         task[1][k].inner = "idle" => task'[1][k].inner = "idle"]_vars

\* C6: cancellation requested while group k is in flight, k not the last
\* group: when the run resumes after group k it ends with the status
\* 'Processing cancelled', processedFiles is exactly the successes of groups
\* 1..k in input order, and no file of a later group is attempted.
C6_CancelKeepsResolvedGroups ==
  [][(/\ nRuns = 1
      /\ pc[1] = "await"
      /\ aborted[1]
      /\ loopI[1] + batchSize < Len(files[1])
      /\ (pc'[1] # "await" \/ loopI'[1] # loopI[1]))
     => (/\ processingStatus' = <<"Processing cancelled">>
         /\ processedFiles' = SuccessesInOrder(1, loopI[1] + batchSize)
         /\ \A k \in (loopI[1] + batchSize + 1)..Len(files[1]) :
              task'[1][k].inner = "idle")]_vars

\* C7: at every moment of a run at most batchSize extractions are in flight
\* (started and not ended, those whose timer has fired included).
C7_InFlightAtMostBatchSize ==
  \A r \in 1..nRuns :
    Cardinality({k \in DOMAIN task[r] : task[r][k].inner = "running"}) <= batchSize

\* C8: groups are consecutive slices of batchSize files processed one after
\* another: the files started in one step after the first group are exactly
\* the next slice, every file of the groups before it has an outcome, and
\* processedFiles then holds the successes of those groups.
C8_GroupsStrictlySequential ==
  [][\A r \in 1..nRuns :
       LET started == {k \in DOMAIN task[r] :
                         task[r][k].inner = "idle" /\ task'[r][k].inner # "idle"}
       IN started # {} =>
            \E g \in 1..Len(files[r]) :
              LET i == g * batchSize
              IN /\ started = (i + 1)..Min(i + batchSize, Len(files[r]))
                 /\ \A j \in 1..i : task[r][j].slot \in {"ok", "null"}
                 /\ \A j \in 1..i :
                      task[r][j].slot = "ok" =>
                        Occurrences(processedFiles', FileName(r, j)) = 1]_vars

\* A second group is in flight after a first one with a success and a failure.
C8_Witness ==
  \E r \in 1..nRuns :
    /\ Len(files[r]) > batchSize
    /\ task[r][batchSize + 1].inner = "running"
    /\ \E j, j2 \in 1..batchSize : task[r][j].slot = "ok" /\ task[r][j2].slot = "null"
    /\ Len(processedFiles) >= 1

\* C9: a file whose extraction has not ended within 30000 ms has resolved as
\* a failure: it is counted and logged as failed and is no ProcessedFile.
C9_TimeoutFailsOnlyThatFile ==
  \A r \in 1..nRuns : \A k \in DOMAIN task[r] :
    task[r][k].late =>
      /\ task[r][k].slot = "null"
      /\ task[r][k].logs >= 1
      /\ Occurrences(processedResults[r], FileName(r, k)) = 0

\* C9 on part_001 alone, which has the timer: the step in which the timer of
\* a file fires counts one failure, appends one log entry, yields no
\* ProcessedFile and leaves the promises of every other file as they are.
C9_TimerStepOnAlt ==
  [][\A r \in 1..nRuns : \A k \in DOMAIN task[r] :
       (/\ task[r][k].slot = "pending" /\ ~task[r][k].late
        /\ task'[r][k].late /\ impl = "Alt")
       => (/\ stats' = [stats EXCEPT !.processed = @ + 1, !.failed = @ + 1]
           /\ errorLogs' = Append(errorLogs, [file |-> FileName(r, k),
                                              message |-> "File processing timed out"])
           /\ task'[r][k].slot = "null"
           /\ processedFiles' = processedFiles
           /\ processedResults' = processedResults
           /\ pc' = pc
           /\ \A r2 \in 1..nRuns : \A k2 \in DOMAIN task[r2] :
                <<r2, k2>> # <<r, k>> => task'[r2][k2] = task[r2][k2])]_vars

\* C10: after the timer of a file has fired, the end of its extraction changes
\* neither the counters nor the error log nor the results.
C10_LateCompletionDiscarded ==
  [][\A r \in 1..nRuns : \A k \in DOMAIN task[r] :
       (/\ task[r][k].inner = "running" /\ task[r][k].slot = "null"
        /\ task'[r][k].inner # "running")
       => (stats' = stats /\ errorLogs' = errorLogs /\ processedFiles' = processedFiles)]_vars

\* C11: every run started by handleFolderUpload eventually ends (isProcessing
\* becomes false again), even when the extraction of some file never ends.
C11_EveryRunEnds == isProcessing ~> ~isProcessing

\* C11 on part_001 alone, where every file has a timer.
C11_EveryRunEndsOnAlt == (impl = "Alt" /\ isProcessing) ~> ~isProcessing

\* C12: the OCR engine is created at most once: createWorker is called at
\* most once, and every image extraction uses that same worker.
C12_WorkerCreatedAtMostOnce ==
  /\ createWorkerCalls <= 1
  /\ \A n, m \in 1..MaxImages :
       (ocr[n].pc \in {"recognize", "done"} /\ ocr[m].pc \in {"recognize", "done"})
         => ocr[n].worker = ocr[m].worker

\* The files of invocation r that resolved as a failure.
Failures(r) == {k \in DOMAIN task[r] : task[r][k].slot \in {"null", "rej"}}

\* C13: a file that resolved as a failure never appears in processedFiles (of
\* which the combined text and the archive are made), and stats.failed equals
\* the number of files of the current run that resolved as a failure.
C13_FailedFilesOnlyInLog ==
  nRuns = 1 =>
    /\ \A k \in Failures(1) :
         /\ Occurrences(processedFiles, FileName(1, k)) = 0
         /\ Occurrences(processedResults[1], FileName(1, k)) = 0
    /\ stats.failed = Cardinality(Failures(1))

\* The first half of C13 alone, for every invocation.
C13_FailuresNotInResults ==
  \A r \in 1..nRuns : \A k \in Failures(r) :
    /\ Occurrences(processedFiles, FileName(r, k)) = 0
    /\ Occurrences(processedResults[r], FileName(r, k)) = 0

IsPrefix(a, b) == Len(a) <= Len(b) /\ SubSeq(b, 1, Len(a)) = a

\* C14: the error log is append-only and holds one entry per failure of the
\* current run: the number of entries equals stats.failed in every state, and
\* during a run no step removes or reorders an entry.
C14_LogAppendOnlyOnePerFailure ==
  /\ [](nRuns = 1 => Len(errorLogs) = stats.failed)
  /\ [][(nRuns = 1 /\ nRuns' = 1) => IsPrefix(errorLogs, errorLogs')]_vars

\* The second half of C14 alone: during the first run, before another upload.
C14_AppendOnly ==
  [][(nRuns = 1 /\ nRuns' = 1) => IsPrefix(errorLogs, errorLogs')]_vars

\* The extension table of the specification: the extraction a lowercase
\* extension stands for.
ExtensionTable(extension) ==
  CASE extension = "txt" -> "text"
    [] extension \in {"doc", "docx"} -> "word"
    [] extension \in {"xls", "xlsx"} -> "excel"
    [] extension \in {"ppt", "pptx"} -> "powerpoint"
    [] extension = "pdf" -> "pdf"
    [] extension \in {"png", "jpg"} -> "image"
    [] OTHER -> "unsupported"

\* The recognized media types of the specification.
MediaTypeTable(type) ==
  CASE type \in TextTypes -> "text"
    [] type \in ImageTypes -> "image"
    [] type = "application/pdf" -> "pdf"
    [] type \in WordTypes -> "word"
    [] type \in ExcelTypes -> "excel"
    [] type \in PowerPointTypes -> "powerpoint"
    [] OTHER -> "unrecognized"

\* The files processFile has been called for.
Called == {c \in (1..nRuns) \X (1..MaxFiles) :
             c[2] \in DOMAIN task[c[1]] /\ task[c[1]][c[2]].inner # "idle"}

\* C15: a file with an empty media type is classified by its extension alone,
\* whatever its case: txt as text, doc/docx as Word, xls/xlsx as Excel,
\* ppt/pptx as PowerPoint, pdf as PDF, png/jpg as image; none is unsupported.
C15_EmptyTypeClassifiedByExtension ==
  \A c \in Called :
    LET file == files[c[1]][c[2]]
        expected == ExtensionTable(toLowerCase(file.ext))
    IN (file.type = "" /\ expected # "unsupported")
         => task[c[1]][c[2]].strategy = expected

\* C16: when the declared media type and the extension disagree, the media
\* type decides the extraction if it is a recognized one, and the extension
\* decides otherwise.
C16_MediaTypeWinsOverExtension ==
  \A c \in Called :
    LET file == files[c[1]][c[2]]
        byType == MediaTypeTable(file.type)
        byExtension == ExtensionTable(toLowerCase(file.ext))
    IN (file.type # "" /\ byType # byExtension)
         => task[c[1]][c[2]].strategy
              = (IF byType # "unrecognized" THEN byType ELSE byExtension)

\* The media types the mounted version of processFile has a branch for.
RecognizedTypes(im) ==
  IF im = "App" THEN TextTypes \cup ImageTypes \cup {"application/pdf"}
  ELSE TextTypes \cup ImageTypes \cup {"application/pdf"} \cup WordTypes
       \cup ExcelTypes \cup PowerPointTypes \cup RtfTypes

C18_ConvertIdempotent ==
  outputText = ConvertText(inputText, options)
    => ConvertText(outputText, options) = outputText

\* C18 without a change of line ending (lineEnding = LF).
C18_IdempotentForLF ==
  (options.lineEnding = "LF" /\ outputText = ConvertText(inputText, options))
    => ConvertText(outputText, options) = outputText

\* C19: for the same text and the same option values the conversion that
\* handleDownload does for each file of the archive gives the same text as the
\* conversion of handleConvert.
C19_DownloadConvertsAsConvert ==
  /\ DownloadText(inputText, options) = ConvertText(inputText, options)
  /\ \A n \in DOMAIN processedFiles :
       DownloadText(processedFiles[n].content, options)
         = ConvertText(processedFiles[n].content, options)
  /\ (/\ download.name = "converted_files.zip"
      /\ outputText # <<>>
      /\ inputText = processedFiles[1].content)
     => download.body[1].data = outputText

\* The content of the first file was typed, converted and downloaded in the
\* archive, with all three options at work.
C19_Witness ==
  /\ download.name = "converted_files.zip"
  /\ outputText # <<>>
  /\ inputText = processedFiles[1].content
  /\ options.trimWhitespace /\ options.removeEmptyLines
  /\ options.lineEnding = "CRLF"
  /\ download.body[1].data # processedFiles[1].content
  /\ \E n \in DOMAIN inputText : inputText[n] = "\r"

\* C20: with exactly one ProcessedFile, or with typed text only, a click on
\* Download hands over a single text: the content of that file, or the typed
\* text, converted with the options as they are at the click, whatever was
\* edited, converted or downloaded before.
C20_DownloadIsConvertedText ==
  [][download' # download =>
       /\ Len(processedFiles) = 1 =>
            download' = [name |-> "converted.txt",
                         body |-> ConvertText(processedFiles[1].content, options)]
       /\ Len(processedFiles) = 0 =>
            download' = [name |-> "converted.txt",
                         body |-> ConvertText(inputText, options)]]_vars

\* C20 for typed text converted just before the click, with no file loaded.
C20_FreshOutputOfTypedText ==
  [][(/\ download' # download
      /\ Len(processedFiles) = 0
      /\ outputText = ConvertText(inputText, options))
     => download' = [name |-> "converted.txt",
                     body |-> ConvertText(inputText, options)]]_vars

\* The name the specification gives the archive entry of a file: the
\* directory segments of its path as they are, and the last segment with its
\* final extension replaced by ".txt", or with ".txt" appended if it has none.
ExpectedEntryName(path) ==
  LET slashes == {n \in DOMAIN path : path[n] = "/"}
      start == IF slashes = {} THEN 1
               ELSE (CHOOSE n \in slashes : \A m \in slashes : m <= n) + 1
      dots == {n \in start..Len(path) : path[n] = "."}
      last == IF dots = {} THEN 0 ELSE CHOOSE n \in dots : \A m \in dots : m <= n
  IN (IF last = 0 \/ last = Len(path) THEN path ELSE SubSeq(path, 1, last - 1))
     \o <<".", "t", "x", "t">>

\* C21: with more than one ProcessedFile, the archive has for each file an
\* entry named by the file's relative path with only the final extension of
\* its last segment replaced by '.txt' (appended if there is none), and no
\* entry of another name.
C21_EntryNameKeepsDirectories ==
  download.name = "converted_files.zip" =>
    /\ \A n \in DOMAIN processedFiles :
         \E e \in DOMAIN download.body :
           download.body[e].fileName = ExpectedEntryName(processedFiles[n].path)
    /\ \A e \in DOMAIN download.body :
         \E n \in DOMAIN processedFiles :
           download.body[e].fileName = ExpectedEntryName(processedFiles[n].path)

\* The archive of a file without extension in a directory with a dot in its
\* name, and of a file whose name ends in a dot.
C21_Witness ==
  /\ download.name = "converted_files.zip"
  /\ processedFiles[1].path = <<"a", ".", "b", "/", "a">>
  /\ processedFiles[2].path = <<"b", ".">>
  /\ download.body[1].fileName = <<"a", ".", "b", "/", "a", ".", "t", "x", "t">>
  /\ download.body[2].fileName = <<"b", ".", ".", "t", "x", "t">>

\* C30: the archive has exactly one entry per ProcessedFile: files of
\* different relative paths get different entry names.
C30_OneEntryPerProcessedFile ==
  (/\ download.name = "converted_files.zip"
   /\ \A n, m \in DOMAIN processedFiles :
        n # m => processedFiles[n].path # processedFiles[m].path)
  => /\ Len(download.body) = Len(processedFiles)
     /\ \A n, m \in DOMAIN processedFiles :
          n # m => ZipName(processedFiles[n].path) # ZipName(processedFiles[m].path)

\* The values of the options panel with every conversion switched off.
OptionsOff ==
  [encoding |-> "UTF-8", lineEnding |-> "LF",
   removeEmptyLines |-> FALSE, trimWhitespace |-> FALSE]

\* The header of processFile followed by the text of the file as it was read.
HeaderAndText(pf) ==
  Content(impl, pf.path, pf.name, files[pf.name[1]][pf.name[2]].text)

\* C22: with trimWhitespace and removeEmptyLines off and lineEnding LF, the
\* text exported for a processed text file is the header followed by the
\* text of the file exactly as read: as the single download when it is the
\* only file (downloaded after Convert Text was clicked on the text the run
\* put into the input area), as its archive entry otherwise.
C22_RoundTripWithOptionsOff ==
  [][(/\ download' # download
      /\ options = OptionsOff
      /\ inputText = CombinedText(processedFiles)
      /\ outputText = ConvertText(inputText, options)) =>
       IF download'.name = "converted_files.zip"
       THEN \A n \in DOMAIN processedFiles :
              \E e \in DOMAIN download'.body :
                /\ download'.body[e].fileName = ZipName(processedFiles[n].path)
                /\ download'.body[e].data = HeaderAndText(processedFiles[n])
       ELSE Len(processedFiles) = 1 =>
              download'.body = HeaderAndText(processedFiles[1])]_vars

\* C22 for the archive alone (more than one processed file).
C22_ArchiveRoundTrip ==
  (download.name = "converted_files.zip" /\ options = OptionsOff) =>
    \A n \in DOMAIN processedFiles :
      \E e \in DOMAIN download.body :
        /\ download.body[e].fileName = ZipName(processedFiles[n].path)
        /\ download.body[e].data = HeaderAndText(processedFiles[n])

\* The lines of a text; the empty text has none.
Lines(text) == IF text = <<>> THEN <<>> ELSE Split(text)

\* A line that is empty or made of white space only.
Blank(line) == \A n \in DOMAIN line : line[n] \in WhiteSpace

\* A line without white space at its ends.
Trimmed(line) ==
  line = <<>> \/ (line[1] \notin WhiteSpace /\ line[Len(line)] \notin WhiteSpace)

\* line is core with white space only around it.
Around(line, core) ==
  \E i \in 0..Len(line) :
    /\ i + Len(core) <= Len(line)
    /\ SubSeq(line, i + 1, i + Len(core)) = core
    /\ Blank(SubSeq(line, 1, i))
    /\ Blank(SubSeq(line, i + Len(core) + 1, Len(line)))

\* The lines of the input that are not blank, in order.
Survivors == SelectSeq(Split(inputText), LAMBDA line : ~Blank(line))

\* C23: removeEmptyLines drops exactly the lines whose trimmed content is
\* empty. With trimWhitespace as well, the converted text (before the line
\* endings are rewritten) has no empty or white-space-only line and no line
\* with white space at its ends; it is the non-blank lines, trimmed, in
\* order. With removeEmptyLines alone the surviving lines keep their white
\* space and their order.
C23_RemoveEmptyLinesAfterTrim ==
  (/\ options.removeEmptyLines
   /\ options.lineEnding = "LF"
   /\ outputText = ConvertText(inputText, options))
  => IF options.trimWhitespace
     THEN /\ Len(Lines(outputText)) = Len(Survivors)
          /\ \A n \in DOMAIN Lines(outputText) :
               /\ ~Blank(Lines(outputText)[n])
               /\ Trimmed(Lines(outputText)[n])
               /\ Around(Survivors[n], Lines(outputText)[n])
     ELSE Lines(outputText) = Survivors

\* A text with a white-space-only line and a line with white space at an end
\* was converted with removeEmptyLines alone: the first line is gone and the
\* second is kept as it was.
C23_Witness ==
  /\ options.removeEmptyLines /\ ~options.trimWhitespace
  /\ options.lineEnding = "LF"
  /\ outputText # <<>>
  /\ outputText = ConvertText(inputText, options)
  /\ \E n \in DOMAIN Split(inputText) :
       Split(inputText)[n] # <<>> /\ Blank(Split(inputText)[n])
  /\ \E n \in DOMAIN Lines(outputText) : ~Trimmed(Lines(outputText)[n])

\* The number of line feeds among the first n characters of a text.
LineFeeds(text, n) == Cardinality({m \in 1..n : text[m] = "\n"})

\* C24: the rewrite of the line terminators is the last step of the
\* conversion. Against the text that trimming and the removal of empty
\* lines give: with CRLF every line feed has become carriage return, line
\* feed; with CR every line feed has become a carriage return and no line
\* feed remains; with LF the text is unchanged; no other character is added
\* or removed.
C24_LineEndingRewrittenLast ==
  outputText = ConvertText(inputText, options) =>
    LET pre == ConvertText(inputText, [options EXCEPT !.lineEnding = "LF"])
        pos(n) == n + LineFeeds(pre, n)
    IN IF options.lineEnding = "CRLF"
       THEN /\ Len(outputText) = Len(pre) + LineFeeds(pre, Len(pre))
            /\ \A n \in DOMAIN pre :
                 /\ outputText[pos(n)] = pre[n]
                 /\ pre[n] = "\n" => outputText[pos(n) - 1] = "\r"
       ELSE IF options.lineEnding = "CR"
       THEN /\ Len(outputText) = Len(pre)
            /\ \A n \in DOMAIN pre :
                 outputText[n] = IF pre[n] = "\n" THEN "\r" ELSE pre[n]
            /\ \A n \in DOMAIN outputText : outputText[n] # "\n"
       ELSE outputText = pre

\* A text of several lines was converted with lineEnding CRLF after empty
\* lines were removed: two line feeds or more were rewritten.
C24_Witness ==
  /\ options.lineEnding = "CRLF" /\ options.removeEmptyLines
  /\ outputText # <<>>
  /\ outputText = ConvertText(inputText, options)
  /\ LineFeeds(outputText, Len(outputText)) >= 2
  /\ Len(outputText) # Len(inputText)
  /\ \E n \in DOMAIN Split(inputText) : Split(inputText)[n] = <<>>

\* The image files of invocation r.
Images(r) == {k \in DOMAIN files[r] : files[r][k].type \in ImageTypes}

C26_CountersOnlyGrow ==
  [][\A r \in 1..nRuns :
       pc[r] = "await" =>
         /\ stats'.processed >= stats.processed
         /\ stats'.failed >= stats.failed
         /\ stats.total = Len(files[r])
         /\ stats'.total = Len(files[r])]_vars

\* C26 while no other upload is made during the run.
C26_CountersOnlyGrowInOneRun ==
  [][(nRuns = 1 /\ nRuns' = 1 /\ pc[1] = "await") =>
       /\ stats'.processed >= stats.processed
       /\ stats'.failed >= stats.failed
       /\ stats.total = Len(files[1])
       /\ stats'.total = Len(files[1])]_vars

C28_EarlierRunIsCancelled ==
  [][(nRuns = 2 /\ nRuns' = 2) =>
       /\ \A k \in DOMAIN task[1] :
            task[1][k].inner = "idle" => task'[1][k].inner = "idle"
       /\ (task'[1] # task[1] \/ pc'[1] # pc[1] \/ loopI'[1] # loopI[1]) =>
            /\ stats' = stats
            /\ errorLogs' = errorLogs
            /\ processedFiles' = processedFiles]_vars

\* The first part of C28 alone: the earlier run starts no further group.
C28_NoFurtherGroup ==
  [][(nRuns = 2 /\ nRuns' = 2) =>
       \A k \in DOMAIN task[1] :
         task[1][k].inner = "idle" => task'[1][k].inner = "idle"]_vars

\* C29: whenever a run is still processing its groups (and has not been
\* cancelled), isProcessing is true and abortControllerRef holds the
\* controller of that run, whatever the order in which overlapping runs
\* start and end.
C29_ProcessingRunHoldsController ==
  \A r \in 1..nRuns :
    (pc[r] = "await" /\ ~aborted[r]) => (isProcessing /\ abortControllerRef = r)

\* The step in which the first run, cancelled while its last group (or its
\* only group) was in flight, leaves the await of that group.
LastGroupEndsCancelled ==
  /\ nRuns = 1 /\ nRuns' = 1
  /\ pc[1] = "await"
  /\ aborted[1]
  /\ loopI[1] + batchSize >= Len(files[1])
  /\ pc'[1] # "await"

\* What the end of a run without a cancellation is: every file of the last
\* group is counted and kept, the combined text is produced (by
\* src/src/App.tsx, which builds one) and the run has completed.
NormalCompletion ==
  /\ pc'[1] = "completed"
  /\ \A k \in Batch(1) : task'[1][k].upd >= 1
  /\ stats'.processed >= Len(files[1])
  /\ processedFiles' = SuccessesInOrder(1, Len(files[1]))
  /\ impl = "App" =>
       /\ inputText' = CombinedText(processedFiles')
       /\ processingStatus' = <<"Processed", Len(files[1]), Len(files[1])>>

HeaderAt(text, n) ==
  {p \in DOMAIN text :
     /\ p + 3 <= Len(text)
     /\ text[p] = "Slide" /\ text[p + 1] = " "
     /\ text[p + 2] = ToString(n) /\ text[p + 3] = "\n"}

\* The slides of an archive that have text.
WithText(parts) ==
  {n \in DOMAIN parts : \E m \in DOMAIN parts[n].matches : ~Blank(parts[n].matches[m])}

\* C32: the text extracted from a presentation has the slides in ascending
\* slide-number order (slide 2 before slide 10), whatever the order of the
\* slide parts in the archive, each slide's text preceded by its slide-number
\* header.
C32_SlidesInAscendingOrder ==
  \A n \in DOMAIN processedFiles :
    LET file == files[processedFiles[n].name[1]][processedFiles[n].name[2]]
        content == processedFiles[n].content
    IN "slides" \in DOMAIN file =>
         /\ \A i \in WithText(file.slides) :
              Cardinality(HeaderAt(content, file.slides[i].number)) = 1
         /\ \A i, j \in WithText(file.slides) :
              file.slides[i].number < file.slides[j].number =>
                \A p \in HeaderAt(content, file.slides[i].number),
                   q \in HeaderAt(content, file.slides[j].number) : p < q

\* C32 when the archive lists its slide parts in ascending order
\* (src/src/App.tsx).
C32_AscendingWhenArchiveIs ==
  \A n \in DOMAIN processedFiles :
    LET file == files[processedFiles[n].name[1]][processedFiles[n].name[2]]
        content == processedFiles[n].content
    IN (/\ "slides" \in DOMAIN file
        /\ impl = "App"
        /\ \A i, j \in DOMAIN file.slides :
             i < j => file.slides[i].number < file.slides[j].number) =>
         /\ \A i \in WithText(file.slides) :
              Cardinality(HeaderAt(content, file.slides[i].number)) = 1
         /\ \A i, j \in WithText(file.slides) :
              file.slides[i].number < file.slides[j].number =>
                \A p \in HeaderAt(content, file.slides[i].number),
                   q \in HeaderAt(content, file.slides[j].number) : p < q

====
